---- MODULE Spec2Model ----
(***************************************************************************)
(* A model of the cache simulator: CacheConfig (src/src/cache_config.py),  *)
(* the three replacement policies (src/src/replacement_policies.py) and    *)
(* Cache (src/src/cache.py), together with the drivers of the repository   *)
(* that feed a fixed address list to a Cache (src/src/main.py,             *)
(* src/tests/test_basic.py).                                               *)
(*                                                                         *)
(* Python lists are sequences (index 0 of the list is index 1 of the       *)
(* sequence); an Optional value is the empty sequence (None) or a          *)
(* one-element sequence; an exception raised by a call is the result       *)
(* "RAISE" of that call.                                                   *)
(***************************************************************************)
EXTENDS Integers, Sequences, FiniteSets, TLC

VARIABLES
    config,       \* Cache.config: the CacheConfig object (immutable)
    policy,       \* Cache.policy.name: "LRU", "FIFO" or "Random"
    pstats,       \* Cache.policy.stats: {"accesses", "hits"}
    sets,         \* Cache.sets: set index -> list of resident tags
    stats,        \* Cache.stats: accesses, hits, misses, replacements
    access_log,   \* Cache.access_log: list of {address, set, result}
    last,         \* the last call of access: its argument, what the policy
                  \* returned (result, replaced) and the tag and set it used
    script,       \* addresses a driver of the repository has still to feed
    selector,     \* the policy_name the Cache was constructed with, as a
                  \* sequence of characters
    debug_mode,   \* Cache.debug_mode
    snapshot,     \* the dict a caller holds from its last call of get_stats
    probe,        \* the last call of CacheConfig.get_address_breakdown: its
                  \* argument and the pair it returned
    rng,          \* the generator of the module random, which the process
                  \* shares: whether random.seed has been called, how many
                  \* values have been drawn since, and the values it yields
                  \* after the seeding
    other         \* a second Cache of the process: the variables above hold
                  \* the Cache whose method is being called, other holds the
                  \* attributes of the Cache that is not

vars == <<config, policy, pstats, sets, stats, access_log, last, script,
          selector, debug_mode, snapshot, probe, rng, other>>

----------------------------------------------------------------------------
(* Bounds of the exploration *)

\* a cache that is not run by a driver receives at most MaxAccesses calls
MaxAccesses == 5

\* those calls carry addresses of the blocks 0 .. MaxBlock
MaxBlock == 3

(* Program constants *)

\* cache.py:77  if len(self.access_log) < 1000
LogCap == 1000

\* cache_config.py:18  cache_size_kb * 1024
BytesPerKB == 1024

None == <<>>
Some(x) == <<x>>

Range(s) == {s[i] : i \in 1..Len(s)}

\* Python's a // b on integers (b # 0): the quotient rounded towards minus
\* infinity, whatever the signs
FloorDiv(a, b) == IF b > 0 THEN a \div b ELSE (-a) \div (-b)

\* Python's a % b on integers (b # 0): the remainder has the sign of b
Mod(a, b) == a - b * FloorDiv(a, b)

----------------------------------------------------------------------------
(* cache_config.py *)

\* a fully associative cache that gets one set for each block
CacheConfig_SetPerBlock(cache_size_kb, block_size_bytes, associativity) ==
    LET cache_size_bytes == cache_size_kb * BytesPerKB
        num_blocks == FloorDiv(cache_size_bytes, block_size_bytes)
    IN  [cache_size_kb    |-> cache_size_kb,
         block_size_bytes |-> block_size_bytes,
         associativity    |-> associativity,
         cache_size_bytes |-> cache_size_bytes,
         num_blocks       |-> num_blocks,
         num_sets         |-> IF associativity = 0
                              THEN num_blocks
                              ELSE FloorDiv(num_blocks, associativity)]

\* CacheConfig.__init__ (block_size_bytes # 0: the division by a block size
\* of 0 raises ZeroDivisionError and no object is made)
CacheConfig(cache_size_kb, block_size_bytes, associativity) ==
    LET cache_size_bytes == cache_size_kb * BytesPerKB
        num_blocks == FloorDiv(cache_size_bytes, block_size_bytes)
    IN  [cache_size_kb    |-> cache_size_kb,
         block_size_bytes |-> block_size_bytes,
         associativity    |-> associativity,
         cache_size_bytes |-> cache_size_bytes,
         num_blocks       |-> num_blocks,
         num_sets         |-> IF associativity = 0
                              THEN 1
                              ELSE FloorDiv(num_blocks, associativity)]

\* the pair a call of get_address_breakdown returned, or that it raised
Probe(address, raised, set_index, tag) ==
    [address |-> address, raised |-> raised, set_index |-> set_index,
     tag |-> tag]

\* a breakdown that takes the set from the byte address, not the block number
GetAddressBreakdown_ByteIndex(cfg, address) ==
    IF cfg.num_sets = 0
    THEN Probe(address, TRUE, -1, -1)
    ELSE LET block_number == FloorDiv(address, cfg.block_size_bytes)
         IN  Probe(address, FALSE,
                   address - cfg.num_sets * FloorDiv(address, cfg.num_sets),
                   FloorDiv(block_number, cfg.num_sets))

\* CacheConfig.get_address_breakdown(address) on the configuration cfg
\* (the modulo by num_sets = 0 raises ZeroDivisionError)
GetAddressBreakdown(cfg, address) ==
    IF cfg.num_sets = 0
    THEN Probe(address, TRUE, -1, -1)
    ELSE LET block_number == FloorDiv(address, cfg.block_size_bytes)
         IN  Probe(address, FALSE,
                   block_number - cfg.num_sets * FloorDiv(block_number, cfg.num_sets),
                   FloorDiv(block_number, cfg.num_sets))

----------------------------------------------------------------------------
(* replacement_policies.py *)

\* ReplacementPolicy.__init__: self.stats
NewPolicyStats == [accesses |-> 0, hits |-> 0]

\* ReplacementPolicy.access: self.stats["accesses"] += 1
BaseAccess(self) == [self EXCEPT !.accesses = @ + 1]

\* ReplacementPolicy.get_hit_rate(): the exact quotient num / den of
\* hits / accesses * 100 (0.0 when accesses = 0)
GetHitRate(self) ==
    IF self.accesses = 0
    THEN [num |-> 0, den |-> 1]
    ELSE [num |-> self.hits * 100, den |-> self.accesses]

\* list.remove(tag): the list without the first occurrence of tag
RECURSIVE Remove(_, _)
Remove(blocks, tag) ==
    IF blocks = <<>> THEN <<>>
    ELSE IF Head(blocks) = tag THEN Tail(blocks)
    ELSE <<Head(blocks)>> \o Remove(Tail(blocks), tag)

\* the generator before any call of random.seed: seeded by the system
Unseeded == [seeded |-> FALSE, pos |-> 0, stream |-> <<>>]

\* random.randint(a, b): the values it may return (it raises when a > b).
\* After random.seed the value is the next one of the seed's sequence,
\* brought into a .. b; without it any value of a .. b may come.
Randint(a, b) ==
    IF a > b THEN {}
    ELSE IF rng.seeded
         THEN {a + (rng.stream[rng.pos + 1] % (b - a + 1))}
         ELSE a..b

\* the generator after random.seed(seed), stream being the values that the
\* seed determines
Seed(stream) == [seeded |-> TRUE, pos |-> 0, stream |-> stream]

\* the generator after a value has been drawn
Drawn(g) == IF g.seeded THEN [g EXCEPT !.pos = @ + 1] ELSE g

\* what a policy's access returns and leaves behind: the policy's counters,
\* the list of the set after the call, and the returned pair
Outcome(self, blocks, result, replaced) ==
    [self |-> self, blocks |-> blocks, result |-> result, replaced |-> replaced]

\* a hit that is found by comparing only the high part of the tag
LRUAccess_PrefixMatch(self, blocks, tag, associativity) ==
    LET self1 == BaseAccess(self) IN
    IF \E i \in 1..Len(blocks) : blocks[i] \div 2 = tag \div 2
    THEN {Outcome([self1 EXCEPT !.hits = @ + 1], blocks, "HIT", None)}
    ELSE IF Len(blocks) < associativity
         THEN {Outcome(self1, Append(blocks, tag), "MISS", None)}
         ELSE IF blocks = <<>>
              THEN {Outcome(self1, blocks, "RAISE", None)}
              ELSE {Outcome(self1, Append(Tail(blocks), tag), "MISS",
                            Some(Head(blocks)))}

\* a hit that does not move the tag to the most recent position
LRUAccess_NoRefresh(self, blocks, tag, associativity) ==
    LET self1 == BaseAccess(self) IN
    IF tag \in Range(blocks)
    THEN {Outcome([self1 EXCEPT !.hits = @ + 1], blocks, "HIT", None)}
    ELSE IF Len(blocks) < associativity
         THEN {Outcome(self1, Append(blocks, tag), "MISS", None)}
         ELSE IF blocks = <<>>
              THEN {Outcome(self1, blocks, "RAISE", None)}
              ELSE {Outcome(self1, Append(Tail(blocks), tag), "MISS",
                            Some(Head(blocks)))}

\* a capacity test that lets the list grow one past the associativity
LRUAccess_OffByOne(self, blocks, tag, associativity) ==
    LET self1 == BaseAccess(self) IN
    IF tag \in Range(blocks)
    THEN {Outcome([self1 EXCEPT !.hits = @ + 1],
                  Append(Remove(blocks, tag), tag), "HIT", None)}
    ELSE IF Len(blocks) <= associativity
         THEN {Outcome(self1, Append(blocks, tag), "MISS", None)}
         ELSE IF blocks = <<>>
              THEN {Outcome(self1, blocks, "RAISE", None)}
              ELSE {Outcome(self1, Append(Tail(blocks), tag), "MISS",
                            Some(Head(blocks)))}

\* the list in the opposite order
Reverse(blocks) == [i \in 1..Len(blocks) |-> blocks[Len(blocks) + 1 - i]]

\* a miss with room that puts the new tag at the front of the list
LRUAccess_InsertFront(self, blocks, tag, associativity) ==
    LET self1 == BaseAccess(self) IN
    IF tag \in Range(blocks)
    THEN {Outcome([self1 EXCEPT !.hits = @ + 1],
                  Append(Remove(blocks, tag), tag), "HIT", None)}
    ELSE IF Len(blocks) < associativity
         THEN {Outcome(self1, <<tag>> \o blocks, "MISS", None)}
         ELSE IF blocks = <<>>
              THEN {Outcome(self1, blocks, "RAISE", None)}
              ELSE {Outcome(self1, Append(Tail(blocks), tag), "MISS",
                            Some(Head(blocks)))}

\* a hit that turns the order of the other tags around
LRUAccess_HitReverses(self, blocks, tag, associativity) ==
    LET self1 == BaseAccess(self) IN
    IF tag \in Range(blocks)
    THEN {Outcome([self1 EXCEPT !.hits = @ + 1],
                  Append(Reverse(Remove(blocks, tag)), tag), "HIT", None)}
    ELSE IF Len(blocks) < associativity
         THEN {Outcome(self1, Append(blocks, tag), "MISS", None)}
         ELSE IF blocks = <<>>
              THEN {Outcome(self1, blocks, "RAISE", None)}
              ELSE {Outcome(self1, Append(Tail(blocks), tag), "MISS",
                            Some(Head(blocks)))}

\* a hit that the policy does not count
LRUAccess_HitUncounted(self, blocks, tag, associativity) ==
    LET self1 == BaseAccess(self) IN
    IF tag \in Range(blocks)
    THEN {Outcome(self1,
                  Append(Remove(blocks, tag), tag), "HIT", None)}
    ELSE IF Len(blocks) < associativity
         THEN {Outcome(self1, Append(blocks, tag), "MISS", None)}
         ELSE IF blocks = <<>>
              THEN {Outcome(self1, blocks, "RAISE", None)}
              ELSE {Outcome(self1, Append(Tail(blocks), tag), "MISS",
                            Some(Head(blocks)))}

\* LRUPolicy.access
LRUAccess(self, blocks, tag, associativity) ==
    LET self1 == BaseAccess(self) IN
    IF tag \in Range(blocks)
    THEN {Outcome([self1 EXCEPT !.hits = @ + 1],
                  Append(Remove(blocks, tag), tag), "HIT", None)}
    ELSE IF Len(blocks) < associativity
         THEN {Outcome(self1, Append(blocks, tag), "MISS", None)}
         ELSE IF blocks = <<>>
              THEN \* blocks.pop(0) on an empty list: IndexError
                   {Outcome(self1, blocks, "RAISE", None)}
              ELSE {Outcome(self1, Append(Tail(blocks), tag), "MISS",
                            Some(Head(blocks)))}

\* a hit that moves the tag to the end of the list, as LRU does
FIFOAccess_Refresh(self, blocks, tag, associativity) ==
    LET self1 == BaseAccess(self) IN
    IF tag \in Range(blocks)
    THEN {Outcome([self1 EXCEPT !.hits = @ + 1],
                  Append(Remove(blocks, tag), tag), "HIT", None)}
    ELSE IF Len(blocks) < associativity
         THEN {Outcome(self1, Append(blocks, tag), "MISS", None)}
         ELSE IF blocks = <<>>
              THEN {Outcome(self1, blocks, "RAISE", None)}
              ELSE {Outcome(self1, Append(Tail(blocks), tag), "MISS",
                            Some(Head(blocks)))}

\* a hit that appends the tag once more
FIFOAccess_AppendOnHit(self, blocks, tag, associativity) ==
    LET self1 == BaseAccess(self) IN
    IF tag \in Range(blocks)
    THEN {Outcome([self1 EXCEPT !.hits = @ + 1], Append(blocks, tag), "HIT", None)}
    ELSE IF Len(blocks) < associativity
         THEN {Outcome(self1, Append(blocks, tag), "MISS", None)}
         ELSE IF blocks = <<>>
              THEN {Outcome(self1, blocks, "RAISE", None)}
              ELSE {Outcome(self1, Append(Tail(blocks), tag), "MISS",
                            Some(Head(blocks)))}

\* a miss with room that puts the new tag at the front of the list
FIFOAccess_Prepend(self, blocks, tag, associativity) ==
    LET self1 == BaseAccess(self) IN
    IF tag \in Range(blocks)
    THEN {Outcome([self1 EXCEPT !.hits = @ + 1], blocks, "HIT", None)}
    ELSE IF Len(blocks) < associativity
         THEN {Outcome(self1, <<tag>> \o blocks, "MISS", None)}
         ELSE IF blocks = <<>>
              THEN {Outcome(self1, blocks, "RAISE", None)}
              ELSE {Outcome(self1, Append(Tail(blocks), tag), "MISS",
                            Some(Head(blocks)))}

\* an eviction that is not reported
FIFOAccess_SilentEviction(self, blocks, tag, associativity) ==
    LET self1 == BaseAccess(self) IN
    IF tag \in Range(blocks)
    THEN {Outcome([self1 EXCEPT !.hits = @ + 1], blocks, "HIT", None)}
    ELSE IF Len(blocks) < associativity
         THEN {Outcome(self1, Append(blocks, tag), "MISS", None)}
         ELSE IF blocks = <<>>
              THEN {Outcome(self1, blocks, "RAISE", None)}
              ELSE {Outcome(self1, Append(Tail(blocks), tag), "MISS",
                            None)}

\* FIFOPolicy.access
FIFOAccess(self, blocks, tag, associativity) ==
    LET self1 == BaseAccess(self) IN
    IF tag \in Range(blocks)
    THEN {Outcome([self1 EXCEPT !.hits = @ + 1], blocks, "HIT", None)}
    ELSE IF Len(blocks) < associativity
         THEN {Outcome(self1, Append(blocks, tag), "MISS", None)}
         ELSE IF blocks = <<>>
              THEN \* blocks.pop(0) on an empty list: IndexError
                   {Outcome(self1, blocks, "RAISE", None)}
              ELSE {Outcome(self1, Append(Tail(blocks), tag), "MISS",
                            Some(Head(blocks)))}

\* a victim that is removed and the new tag appended, instead of overwritten
RandomAccess_PopAppend(self, blocks, tag, associativity) ==
    LET self1 == BaseAccess(self) IN
    IF tag \in Range(blocks)
    THEN {Outcome([self1 EXCEPT !.hits = @ + 1], blocks, "HIT", None)}
    ELSE IF Len(blocks) < associativity
         THEN {Outcome(self1, Append(blocks, tag), "MISS", None)}
         ELSE IF Randint(0, Len(blocks) - 1) = {}
              THEN {Outcome(self1, blocks, "RAISE", None)}
              ELSE {Outcome(self1,
                            Append(SubSeq(blocks, 1, index) \o
                                   SubSeq(blocks, index + 2, Len(blocks)), tag),
                            "MISS", Some(blocks[index + 1]))
                      : index \in Randint(0, Len(blocks) - 1)}

\* a miss that returns before the tag is stored
RandomAccess_NoInsert(self, blocks, tag, associativity) ==
    LET self1 == BaseAccess(self) IN
    IF tag \in Range(blocks)
    THEN {Outcome([self1 EXCEPT !.hits = @ + 1], blocks, "HIT", None)}
    ELSE IF Len(blocks) < associativity
         THEN {Outcome(self1, blocks, "MISS", None)}
         ELSE IF Randint(0, Len(blocks) - 1) = {}
              THEN {Outcome(self1, blocks, "RAISE", None)}
              ELSE {Outcome(self1, [blocks EXCEPT ![index + 1] = tag], "MISS",
                            Some(blocks[index + 1]))
                      : index \in Randint(0, Len(blocks) - 1)}

\* an eviction that reports the first tag of the list, whichever it overwrote
RandomAccess_ReportsFirst(self, blocks, tag, associativity) ==
    LET self1 == BaseAccess(self) IN
    IF tag \in Range(blocks)
    THEN {Outcome([self1 EXCEPT !.hits = @ + 1], blocks, "HIT", None)}
    ELSE IF Len(blocks) < associativity
         THEN {Outcome(self1, Append(blocks, tag), "MISS", None)}
         ELSE IF Randint(0, Len(blocks) - 1) = {}
              THEN {Outcome(self1, blocks, "RAISE", None)}
              ELSE {Outcome(self1, [blocks EXCEPT ![index + 1] = tag], "MISS",
                            Some(blocks[1]))
                      : index \in Randint(0, Len(blocks) - 1)}

\* a hit that moves the tag to the end of the list, as LRU does
RandomAccess_HitRefresh(self, blocks, tag, associativity) ==
    LET self1 == BaseAccess(self) IN
    IF tag \in Range(blocks)
    THEN {Outcome([self1 EXCEPT !.hits = @ + 1],
                  Append(Remove(blocks, tag), tag), "HIT", None)}
    ELSE IF Len(blocks) < associativity
         THEN {Outcome(self1, Append(blocks, tag), "MISS", None)}
         ELSE IF Randint(0, Len(blocks) - 1) = {}
              THEN {Outcome(self1, blocks, "RAISE", None)}
              ELSE {Outcome(self1, [blocks EXCEPT ![index + 1] = tag], "MISS",
                            Some(blocks[index + 1]))
                      : index \in Randint(0, Len(blocks) - 1)}

\* RandomPolicy.access: one outcome for each value randint may return
RandomAccess(self, blocks, tag, associativity) ==
    LET self1 == BaseAccess(self) IN
    IF tag \in Range(blocks)
    THEN {Outcome([self1 EXCEPT !.hits = @ + 1], blocks, "HIT", None)}
    ELSE IF Len(blocks) < associativity
         THEN {Outcome(self1, Append(blocks, tag), "MISS", None)}
         ELSE IF Randint(0, Len(blocks) - 1) = {}
              THEN \* randint(0, -1): ValueError
                   {Outcome(self1, blocks, "RAISE", None)}
              ELSE {Outcome(self1, [blocks EXCEPT ![index + 1] = tag], "MISS",
                            Some(blocks[index + 1]))
                      : index \in Randint(0, Len(blocks) - 1)}

\* self.policy.access(...): dispatch on the class of the policy object
PolicyAccess(name, self, blocks, tag, associativity) ==
    CASE name = "LRU"    -> LRUAccess(self, blocks, tag, associativity)
      [] name = "FIFO"   -> FIFOAccess(self, blocks, tag, associativity)
      [] name = "Random" -> RandomAccess(self, blocks, tag, associativity)

----------------------------------------------------------------------------
(* cache.py *)

LowerCase ==
    <<"a", "b", "c", "d", "e", "f", "g", "h", "i", "j", "k", "l", "m",
      "n", "o", "p", "q", "r", "s", "t", "u", "v", "w", "x", "y", "z">>

UpperCase ==
    <<"A", "B", "C", "D", "E", "F", "G", "H", "I", "J", "K", "L", "M",
      "N", "O", "P", "Q", "R", "S", "T", "U", "V", "W", "X", "Y", "Z">>

\* str.upper() on a string held as its sequence of characters: a lower-case
\* letter becomes its capital, every other character stays
Upper(str) ==
    [i \in 1..Len(str) |->
        IF \E k \in 1..Len(LowerCase) : LowerCase[k] = str[i]
        THEN UpperCase[CHOOSE k \in 1..Len(LowerCase) : LowerCase[k] = str[i]]
        ELSE str[i]]

\* an unknown selector that falls back to FIFO
SetupPolicy_FallbackFIFO(policy_name) ==
    LET name == Upper(policy_name) IN
    IF name = <<"L", "R", "U">> THEN "LRU"
    ELSE IF name = <<"F", "I", "F", "O">> THEN "FIFO"
    ELSE IF name = <<"R", "A", "N", "D", "O", "M">> THEN "Random"
    ELSE "FIFO"

\* Cache._setup_policy: the name of the policy object it creates
SetupPolicy(policy_name) ==
    LET name == Upper(policy_name) IN
    IF name = <<"L", "R", "U">> THEN "LRU"
    ELSE IF name = <<"F", "I", "F", "O">> THEN "FIFO"
    ELSE IF name = <<"R", "A", "N", "D", "O", "M">> THEN "Random"
    ELSE "LRU"

\* Cache.__init__: self.stats
NewStats == [accesses |-> 0, hits |-> 0, misses |-> 0, replacements |-> 0]

\* sets that hold the tag 0 from the start
NewSets_Warm(cfg) == [i \in 0..(cfg.num_sets - 1) |-> <<0>>]

\* Cache.__init__: self.sets = [[] for _ in range(config.num_sets)]
NewSets(cfg) == [i \in 0..(cfg.num_sets - 1) |-> <<>>]

\* a set index taken from the address itself, not from its block number
GetSetIndex_NoBlockNumber(address) ==
    Mod(address, config.num_sets)

\* Cache._get_set_index (config.num_sets # 0)
GetSetIndex(address) ==
    LET block_num == FloorDiv(address, config.block_size_bytes)
    IN  Mod(block_num, config.num_sets)

\* a tag taken from the address itself, not from its block number
GetTag_ByteAddress(address) ==
    FloorDiv(address, config.num_sets)

\* a tag that loses its lowest bit
GetTag_DropsLowBit(address) ==
    LET block_num == FloorDiv(address, config.block_size_bytes)
    IN  FloorDiv(FloorDiv(block_num, config.num_sets), 2)

\* Cache._get_tag (config.num_sets # 0)
GetTag(address) ==
    LET block_num == FloorDiv(address, config.block_size_bytes)
    IN  FloorDiv(block_num, config.num_sets)

\* an eviction that is counted only when the victim is truthy (tag 0 is not)
TrackStats_Truthy(st, result, replaced) ==
    IF result = "HIT"
    THEN [st EXCEPT !.hits = @ + 1]
    ELSE IF replaced # None /\ replaced # Some(0)
         THEN [st EXCEPT !.misses = @ + 1, !.replacements = @ + 1]
         ELSE [st EXCEPT !.misses = @ + 1]

\* a hit that is counted as a miss as well
TrackStats_HitAlsoMiss(st, result, replaced) ==
    IF result = "HIT"
    THEN [st EXCEPT !.hits = @ + 1, !.misses = @ + 1]
    ELSE IF replaced # None
         THEN [st EXCEPT !.misses = @ + 1, !.replacements = @ + 1]
         ELSE [st EXCEPT !.misses = @ + 1]

\* Cache.access, "Track what happened"
TrackStats(st, result, replaced) ==
    IF result = "HIT"
    THEN [st EXCEPT !.hits = @ + 1]
    ELSE IF replaced # None
         THEN [st EXCEPT !.misses = @ + 1, !.replacements = @ + 1]
         ELSE [st EXCEPT !.misses = @ + 1]

\* a log that, once full, drops its oldest entry for the new one
KeepLog_Ring(log, address, set_index, result) ==
    IF Len(log) < LogCap
    THEN Append(log, [address |-> address, set |-> set_index, result |-> result])
    ELSE Append(Tail(log), [address |-> address, set |-> set_index, result |-> result])

\* Cache.access, "Keep a log for analysis"
KeepLog(log, address, set_index, result) ==
    IF Len(log) < LogCap
    THEN Append(log, [address |-> address, set |-> set_index, result |-> result])
    ELSE log

\* what is observed of one call of access
Call(address, set_index, tag, result, replaced) ==
    [address |-> address, set |-> set_index, tag |-> tag,
     result |-> result, replaced |-> replaced]

NoCall == Call(-1, -1, -1, "NONE", None)

\* lst[i] of a Python list held as a function on 0 .. len - 1: the index
\* that is read (a negative i counts from the end); IndexError when it is
\* not an index of the list
ListIndex(lst, i) == IF i < 0 THEN i + Cardinality(DOMAIN lst) ELSE i

\* sets that are all one list object, as [[]] * num_sets makes them
Mutated_Aliased(ss, index, blocks) == [i \in DOMAIN ss |-> blocks]

\* self.sets after the policy has changed, in place, the list it was passed,
\* self.sets[index]: the lists of self.sets are objects of their own, made
\* one by one in Cache.__init__, so that no other position changes
Mutated(ss, index, blocks) == [ss EXCEPT ![index] = blocks]

\* the state a call of access leaves and what it prints
Effect(ps, ss, st, log, call, g, printed) ==
    [pstats |-> ps, sets |-> ss, stats |-> st, access_log |-> log,
     last |-> call, rng |-> g, printed |-> printed]

\* an access that, in debug mode, prints instead of keeping the log
AccessOutcomes_DebugSkipsLog(address, debug) ==
    LET stats1 == [stats EXCEPT !.accesses = @ + 1] IN
    IF config.num_sets = 0
    THEN \* _get_set_index: modulo by zero, ZeroDivisionError
         {Effect(pstats, sets, stats1, access_log,
                 Call(address, -1, -1, "RAISE", None), rng, 0)}
    ELSE LET set_index == GetSetIndex(address)
             tag == GetTag(address)
             printed == IF debug THEN 1 ELSE 0
         IN
         IF ListIndex(sets, set_index) \notin DOMAIN sets
         THEN \* self.sets[set_index]: IndexError, the policy is not called
              {Effect(pstats, sets, stats1, access_log,
                      Call(address, set_index, tag, "RAISE", None), rng, printed)}
         ELSE
           { Effect(out.self,
                    Mutated(sets, ListIndex(sets, set_index), out.blocks),
                    IF out.result = "RAISE"
                    THEN stats1
                    ELSE TrackStats(stats1, out.result, out.replaced),
                    IF out.result = "RAISE" \/ debug
                    THEN access_log
                    ELSE KeepLog(access_log, address, set_index, out.result),
                    Call(address, set_index, tag, out.result, out.replaced),
                    IF policy = "Random" /\ out.replaced # None
                    THEN Drawn(rng)
                    ELSE rng,
                    printed)
               : out \in PolicyAccess(policy, pstats,
                                      sets[ListIndex(sets, set_index)], tag,
                                      config.associativity) }

\* Cache.access(address) with self.debug_mode = debug: the effects it may have
AccessOutcomes(address, debug) ==
    LET stats1 == [stats EXCEPT !.accesses = @ + 1] IN
    IF config.num_sets = 0
    THEN \* _get_set_index: modulo by zero, ZeroDivisionError
         {Effect(pstats, sets, stats1, access_log,
                 Call(address, -1, -1, "RAISE", None), rng, 0)}
    ELSE LET set_index == GetSetIndex(address)
             tag == GetTag(address)
             printed == IF debug THEN 1 ELSE 0
         IN
         IF ListIndex(sets, set_index) \notin DOMAIN sets
         THEN \* self.sets[set_index]: IndexError, the policy is not called
              {Effect(pstats, sets, stats1, access_log,
                      Call(address, set_index, tag, "RAISE", None), rng, printed)}
         ELSE
           { Effect(out.self,
                    Mutated(sets, ListIndex(sets, set_index), out.blocks),
                    IF out.result = "RAISE"
                    THEN stats1
                    ELSE TrackStats(stats1, out.result, out.replaced),
                    IF out.result = "RAISE"
                    THEN access_log
                    ELSE KeepLog(access_log, address, set_index, out.result),
                    Call(address, set_index, tag, out.result, out.replaced),
                    IF policy = "Random" /\ out.replaced # None
                    THEN Drawn(rng)
                    ELSE rng,
                    printed)
               : out \in PolicyAccess(policy, pstats,
                                      sets[ListIndex(sets, set_index)], tag,
                                      config.associativity) }

\* Cache.access(address)
DoAccess(address) ==
    \E e \in AccessOutcomes(address, debug_mode) :
      /\ pstats' = e.pstats
      /\ sets' = e.sets
      /\ stats' = e.stats
      /\ access_log' = e.access_log
      /\ last' = e.last
      /\ rng' = e.rng
      /\ UNCHANGED <<other, config, policy, selector, debug_mode, snapshot, probe>>

\* a dict a caller holds: alias tells whether it is the object self.stats of
\* the cache itself, and dict is what it holds when it is an object of its own
Held(alias, dict) == [alias |-> alias, dict |-> dict]

\* what a reader of the held dict h finds in it
Contents(h) == IF h.alias THEN stats ELSE h.dict

\* d[key] = v on a dict
SetItem(d, key, v) ==
    [k \in DOMAIN d \cup {key} |-> IF k = key THEN v ELSE d[k]]

\* a hit rate that forgets the guard against an empty run
GetStats_NoGuard ==
    [accesses     |-> stats.accesses,
     hits         |-> stats.hits,
     misses       |-> stats.misses,
     hit_rate     |-> [num |-> stats.hits * 100, den |-> stats.accesses],
     replacements |-> stats.replacements,
     policy       |-> policy]

\* Cache.get_stats(): hit_rate is the exact quotient num / den of
\* hits / total * 100 (0 when total = 0)
GetStats ==
    LET total == stats.accesses
        hit_rate == IF total > 0
                    THEN [num |-> stats.hits * 100, den |-> total]
                    ELSE [num |-> 0, den |-> 1]
    IN  [accesses     |-> total,
         hits         |-> stats.hits,
         misses       |-> stats.misses,
         hit_rate     |-> hit_rate,
         replacements |-> stats.replacements,
         policy       |-> policy]

\* a get_stats that hands out self.stats itself
Returned_Live == Held(TRUE, stats)

\* the object get_stats returns: the dict its return statement builds
Returned == Held(FALSE, GetStats)

\* some caller calls cache.get_stats() and keeps the result
CallGetStats ==
    /\ snapshot' = Some(Returned)
    /\ UNCHANGED <<other, config, policy, pstats, sets, stats, access_log, last,
                   script, selector, debug_mode, probe, rng>>

\* the keys a caller assigns in the dict it holds, and the value it assigns
ModifiedKeys == {"time", "hits"}

Junk == 7

\* the caller assigns to a key of the dict it got from get_stats, as
\* experiment_policy_comparison does with stats['time']
ModifySnapshot ==
    /\ snapshot # None
    /\ \E key \in ModifiedKeys :
         LET h == snapshot[1] IN
         IF h.alias
         THEN /\ stats' = SetItem(stats, key, Junk)
              /\ UNCHANGED snapshot
         ELSE /\ snapshot' = Some(Held(FALSE, SetItem(h.dict, key, Junk)))
              /\ UNCHANGED stats
    /\ UNCHANGED <<other, config, policy, pstats, sets, access_log, last, script,
                   selector, debug_mode, probe, rng>>

\* Cache.print_stats(): it prints what get_stats returns and the grade
PrintStats == UNCHANGED vars

\* Cache.debug_on()
DebugOn ==
    /\ debug_mode' = TRUE
    /\ UNCHANGED <<other, config, policy, pstats, sets, stats, access_log, last,
                   script, selector, snapshot, probe, rng>>

\* Cache.debug_off()
DebugOff ==
    /\ debug_mode' = FALSE
    /\ UNCHANGED <<other, config, policy, pstats, sets, stats, access_log, last,
                   script, selector, snapshot, probe, rng>>

----------------------------------------------------------------------------
(* The caches that are explored *)

\* (cache_size_kb, block_size_bytes, associativity) of the caches that receive
\* arbitrary addresses: direct-mapped, 2-way and 3-way (one block left over
\* by the division), fully associative (the sentinel 0), and more ways than
\* blocks; then a negative size with a negative block size, a size of 0 and
\* a negative associativity
Configs ==
    { <<1, 512, 1>>, <<1, 512, 2>>, <<1, 256, 2>>, <<1, 256, 3>>,
      <<1, 512, 0>>, <<1, 512, 4>>,
      <<-1, -512, 1>>, <<0, 512, 1>>, <<1, 512, -1>> }

\* the selectors the repository passes
Selectors ==
    { <<"L", "R", "U">>, <<"F", "I", "F", "O">>,
      <<"R", "A", "N", "D", "O", "M">> }

\* other selectors a caller may pass: other spellings of the three names,
\* and strings that name no policy
OtherSelectors ==
    { <<"l", "r", "u">>, <<"F", "i", "f", "o">>,
      <<"r", "a", "n", "d", "o", "m">>, <<"M", "R", "U">>,
      <<"L", "R", "U", " ">>, <<>> }

\* the addresses such a cache receives: the first byte of each of the blocks
\* 0 .. MaxBlock, and the last byte of block 0
Addresses(cfg) ==
    LET size == IF cfg.block_size_bytes < 0
                THEN -cfg.block_size_bytes
                ELSE cfg.block_size_bytes
    IN  {b * size : b \in 0..MaxBlock} \cup {size - 1}

\* main.py experiment_basic_functionality, tests/test_basic.py test_basic and
\* test_policies: the cache each builds and the addresses it feeds
Drivers ==
    { [config |-> <<4, 64, 1>>, policy_name |-> <<"L", "R", "U">>,
       addresses |-> <<0, 64, 128, 192, 0, 64, 128, 256>>],
      [config |-> <<4, 64, 1>>, policy_name |-> <<"L", "R", "U">>,
       addresses |-> <<0, 64, 0>>] }
    \cup
    { [config |-> <<2, 64, 2>>, policy_name |-> p,
       addresses |-> <<0, 64, 128, 0, 64, 256>>] : p \in Selectors }

\* the process has one Cache only
NoOther == <<>>

\* no call of get_address_breakdown yet
NoProbe == Probe(-1, FALSE, -1, -1)

\* Cache.__init__(config, policy_name)
NewCache(cfg, policy_name) ==
    /\ config = cfg
    /\ selector = policy_name
    /\ policy = SetupPolicy(policy_name)
    /\ pstats = NewPolicyStats
    /\ sets = NewSets(cfg)
    /\ stats = NewStats
    /\ debug_mode = FALSE
    /\ access_log = <<>>
    /\ last = NoCall
    /\ snapshot = None
    /\ probe = NoProbe

\* caches that receive arbitrary addresses, the 2-way cache of one set with
\* the other selectors as well, and the caches of the drivers; random.seed
\* has not been called
Init ==
    /\ rng = Unseeded
    /\ other = NoOther
    /\ \/ \E c \in Configs, p \in Selectors :
            /\ NewCache(CacheConfig(c[1], c[2], c[3]), p)
            /\ script = <<>>
       \/ \E p \in OtherSelectors :
            /\ NewCache(CacheConfig(1, 512, 2), p)
            /\ script = <<>>
       \/ \E d \in Drivers :
            /\ NewCache(CacheConfig(d.config[1], d.config[2], d.config[3]),
                        d.policy_name)
            /\ script = d.addresses

\* a caller passes an address to access
Access ==
    /\ script = <<>>
    /\ stats.accesses < MaxAccesses
    /\ \E address \in Addresses(config) : DoAccess(address)
    /\ UNCHANGED script

\* a driver passes the next address of its list to access
Drive ==
    /\ script # <<>>
    /\ DoAccess(Head(script))
    /\ script' = Tail(script)

Next == Access \/ Drive

Spec == Init /\ [][Next]_vars

----------------------------------------------------------------------------
(* The observed caches that are explored *)

MaxObserved == 3

\* 2-way caches of one and of two sets, under each policy
InitObserve ==
    /\ rng = Unseeded
    /\ other = NoOther
    /\ script = <<>>
    /\ \E bs \in {512, 256}, p \in Selectors :
         NewCache(CacheConfig(1, bs, 2), p)

\* some caller calls cache.access(address)
ObservedAccess ==
    /\ stats.accesses < MaxObserved
    /\ \E address \in Addresses(config) : DoAccess(address)
    /\ UNCHANGED script

NextObserve ==
    \/ ObservedAccess
    \/ CallGetStats
    \/ ModifySnapshot
    \/ PrintStats
    \/ DebugOn
    \/ DebugOff

SpecObserve == InitObserve /\ [][NextObserve]_vars

----------------------------------------------------------------------------
(* The seeded runs that are explored *)

MaxSeeded == 4
StreamLen == 3
MaxDraw == 1

\* the sequences of values a seed may determine
Streams == [1..StreamLen -> 0..MaxDraw]

\* a run that starts as the experiments do, with TraceGenerator(seed), which
\* calls random.seed(seed), and then makes a 2-way Random cache of one set
InitSeeded ==
    /\ \E stream \in Streams : rng = Seed(stream)
    /\ other = NoOther
    /\ script = <<>>
    /\ NewCache(CacheConfig(1, 512, 2), <<"R", "A", "N", "D", "O", "M">>)

\* the run calls cache.access(address) on the first byte of a block
SeededAccess ==
    /\ stats.accesses < MaxSeeded
    /\ rng.pos < Len(rng.stream)
    /\ \E b \in 0..MaxBlock : DoAccess(b * config.block_size_bytes)
    /\ UNCHANGED script

\* the run calls TraceGenerator.random(count=1), whose random.randint draws
\* the next value of the same generator
TraceRandom ==
    /\ rng.pos < Len(rng.stream)
    /\ rng' = Drawn(rng)
    /\ UNCHANGED <<other, config, policy, pstats, sets, stats, access_log, last,
                   script, selector, debug_mode, snapshot, probe>>

NextSeeded == SeededAccess \/ TraceRandom

SpecSeeded == InitSeeded /\ [][NextSeeded]_vars

----------------------------------------------------------------------------
(* The processes with two caches that are explored *)

MaxTwo == 3

\* a Cache object that is not the one in focus, just constructed:
\* Cache.__init__(config, policy_name) for the cache called name
NewOther(name, cfg, policy_name) ==
    [name |-> name, config |-> cfg, selector |-> policy_name,
     policy |-> SetupPolicy(policy_name), pstats |-> NewPolicyStats,
     sets |-> NewSets(cfg), stats |-> NewStats, debug_mode |-> FALSE,
     access_log |-> <<>>, last |-> NoCall]

\* the name of the Cache in focus: the first or the second one constructed
Focus == IF other = NoOther THEN 1 ELSE 3 - other[1].name

\* a seeded run, as experiment_policy_comparison is one, that makes two
\* 2-way caches of one set with the same policy
InitTwo ==
    /\ \E stream \in Streams : rng = Seed(stream)
    /\ script = <<>>
    /\ \E p \in Selectors :
         /\ NewCache(CacheConfig(1, 512, 2), p)
         /\ other = Some(NewOther(2, CacheConfig(1, 512, 2), p))

\* the run calls access(address) of the Cache in focus, on the first byte of
\* a block
TwoAccess ==
    /\ stats.accesses < MaxTwo
    /\ rng.pos < Len(rng.stream)
    /\ \E b \in 0..MaxBlock : DoAccess(b * config.block_size_bytes)
    /\ UNCHANGED script

\* the run turns to its other Cache: each object keeps its attributes
Switch ==
    /\ other # NoOther
    /\ other' = Some([name |-> Focus, config |-> config, selector |-> selector,
                      policy |-> policy, pstats |-> pstats, sets |-> sets,
                      stats |-> stats, debug_mode |-> debug_mode,
                      access_log |-> access_log, last |-> last])
    /\ config' = other[1].config
    /\ selector' = other[1].selector
    /\ policy' = other[1].policy
    /\ pstats' = other[1].pstats
    /\ sets' = other[1].sets
    /\ stats' = other[1].stats
    /\ debug_mode' = other[1].debug_mode
    /\ access_log' = other[1].access_log
    /\ last' = other[1].last
    /\ UNCHANGED <<script, snapshot, probe, rng>>

NextTwo == TwoAccess \/ Switch

SpecTwo == InitTwo /\ [][NextTwo]_vars

----------------------------------------------------------------------------
(* The pairs of LRU caches that are explored *)

MaxPair == 5

\* (cache_size_kb, block_size_bytes, associativity) of a smaller and a larger
\* cache with the same block size and the same number of sets: 1 and 2 ways
\* on two sets, 2 and 3 ways on one set, 2 and 3 ways on two sets
Pairs ==
    { << <<1, 512, 1>>, <<2, 512, 2>> >>,
      << <<1, 512, 2>>, <<2, 512, 3>> >>,
      << <<1, 256, 2>>, <<2, 256, 3>> >> }

\* a run that makes two LRU caches, the smaller one first
InitPair ==
    /\ rng = Unseeded
    /\ script = <<>>
    /\ \E pair \in Pairs :
         /\ NewCache(CacheConfig(pair[1][1], pair[1][2], pair[1][3]),
                     <<"L", "R", "U">>)
         /\ other = Some(NewOther(2, CacheConfig(pair[2][1], pair[2][2],
                                                 pair[2][3]),
                                  <<"L", "R", "U">>))

\* the run passes the next address of its trace to access of the first
\* cache, and keeps it for the second
Lead ==
    /\ Focus = 1
    /\ script = <<>>
    /\ stats.accesses < MaxPair
    /\ \E b \in 0..MaxBlock :
         /\ DoAccess(b * config.block_size_bytes)
         /\ script' = <<b * config.block_size_bytes>>

\* the run turns to the cache that has the address still to get
Turn ==
    /\ \/ Focus = 1 /\ script # <<>>
       \/ Focus = 2 /\ script = <<>>
    /\ Switch

\* the run passes the same address to access of the second cache
Follow ==
    /\ Focus = 2
    /\ Drive

NextPair == Lead \/ Turn \/ Follow

SpecPair == InitPair /\ [][NextPair]_vars

----------------------------------------------------------------------------
(* The long runs that are explored *)

\* accesses made after the log is full
Overrun == 3

\* TraceGenerator.sequential(start, count, step)
Sequential(start, count, step) == [i \in 1..count |-> start + (i - 1) * step]

\* the steps of the sequential traces: words of a block one after the other
\* (the default), one block after the other, and blocks that all fall in
\* the first of the 64 sets
Steps == {4, 64, 4096}

\* experiment_memory_patterns: the 8 KB 2-way cache with 64-byte blocks fed a
\* sequential trace, here one longer than the log
InitLong ==
    /\ rng = Unseeded
    /\ other = NoOther
    /\ NewCache(CacheConfig(8, 64, 2), <<"L", "R", "U">>)
    /\ \E step \in Steps : script = Sequential(0, LogCap + Overrun, step)

NextLong == Drive

SpecLong == InitLong /\ [][NextLong]_vars

----------------------------------------------------------------------------
(* The configurations that are explored *)

\* cache sizes from MinKB to MaxKB: no size is refused, a negative one and 0
\* make a CacheConfig as well
MinKB == -1
MaxKB == 2
MaxWays == 4
MaxProbed == 2

\* block sizes: powers of two, one that does not divide the cache size, and
\* one larger than a cache of 1 KB
BlockSizes == {64, 100, 256, 512, 2048}

\* the addresses handed to get_address_breakdown: those of the accesses and
\* the byte after each
ProbeAddresses(cfg) == Addresses(cfg) \cup {a + 1 : a \in Addresses(cfg)}

InitConfig ==
    /\ rng = Unseeded
    /\ other = NoOther
    /\ script = <<>>
    /\ \E kb \in MinKB..MaxKB, bs \in BlockSizes, ways \in 0..MaxWays :
         NewCache(CacheConfig(kb, bs, ways), <<"L", "R", "U">>)

\* some caller calls config.get_address_breakdown(address)
Breakdown ==
    /\ \E address \in ProbeAddresses(config) :
         probe' = GetAddressBreakdown(config, address)
    /\ UNCHANGED <<other, config, policy, pstats, sets, stats, access_log, last,
                   script, selector, debug_mode, snapshot, rng>>

\* some caller calls cache.access(address)
ProbedAccess ==
    /\ stats.accesses < MaxProbed
    /\ \E address \in Addresses(config) : DoAccess(address)
    /\ UNCHANGED script

NextConfig == Breakdown \/ ProbedAccess

SpecConfig == InitConfig /\ [][NextConfig]_vars

----------------------------------------------------------------------------
(* Vocabulary of the properties *)

\* the configuration is one the data model allows a cache to be built from:
\* at least one way, and no more ways than blocks
WellFormed == config.associativity >= 1 /\ config.num_sets >= 1

\* a step that is one call of access
AccessStep == Access \/ Drive

\* the tags a set holds
Resident(s) == Range(sets[s])

\* the entries of the log that went to set s, in order
SetHistory(s) == SelectSeq(access_log, LAMBDA e : e.set = s)

\* the tags of the entries of a history
TagsOf(h) == [i \in 1..Len(h) |-> GetTag(h[i].address)]

ResultsOf(h) == [i \in 1..Len(h) |-> h[i].result]

AddressesOf(h) == [i \in 1..Len(h) |-> h[i].address]

\* the position in the log of the most recent access to tag t of set s
\* (0 when there is none)
LastUse(log, s, t) ==
    LET at == {i \in 1..Len(log) : log[i].set = s /\ GetTag(log[i].address) = t}
    IN  IF at = {} THEN 0 ELSE CHOOSE i \in at : \A j \in at : j <= i

\* the position in the log of the most recent miss on tag t of set s: the
\* access that inserted it, when t is resident (0 when there is none)
LastInsert(log, s, t) ==
    LET at == {i \in 1..Len(log) : /\ log[i].set = s
                                    /\ GetTag(log[i].address) = t
                                    /\ log[i].result = "MISS"}
    IN  IF at = {} THEN 0 ELSE CHOOSE i \in at : \A j \in at : j <= i

----------------------------------------------------------------------------
\* C1: in a cache with at least one way and at least one set, under every
\* policy, a call of access returns "HIT" exactly when the tag of the address
\* is an element of the list of the address's set just before the call, and
\* "MISS" otherwise.
C1_HitIffTagPresent ==
    [][(AccessStep /\ WellFormed) =>
         LET a == last'.address
             present == GetTag(a) \in Resident(GetSetIndex(a))
         IN  /\ last'.result \in {"HIT", "MISS"}
             /\ (last'.result = "HIT") <=> present
             /\ (last'.result = "MISS") <=> ~present]_vars

\* a hit on a tag that shares its set with another resident tag, and a miss
\* has happened on a tag that differs from a resident one
C1_Witness ==
    /\ WellFormed
    /\ last.result = "HIT"
    /\ Len(sets[last.set]) >= 2
    /\ stats.misses >= 2

----------------------------------------------------------------------------
\* C2: under LRU, a miss in a full set evicts the resident tag whose most
\* recent access (hit or insertion) is the oldest; and when the first four
\* accesses to a set of a 2-way cache carry the tags A, B, A, C (all
\* different), their results are MISS, MISS, HIT, MISS and the set then
\* holds exactly A and C.
C2_Evicts ==
    (AccessStep /\ WellFormed /\ policy = "LRU" /\ last'.result = "MISS"
       /\ Len(sets[last'.set]) = config.associativity) =>
      /\ last'.replaced # None
      /\ LET s == last'.set
             e == last'.replaced[1]
         IN  /\ e \in Resident(s)
             /\ e \notin Range(sets'[s])
             /\ \A t \in Resident(s) :
                   LastUse(access_log, s, e) <= LastUse(access_log, s, t)

\* the first four accesses to set s carried the tags A, B, A, C
IsABAC(s) ==
    LET t == TagsOf(SetHistory(s))
    IN  /\ Len(t) = 4
        /\ t[1] = t[3]
        /\ Cardinality({t[1], t[2], t[4]}) = 3

C2_Scenario ==
    (WellFormed /\ policy = "LRU" /\ config.associativity = 2) =>
      \A s \in DOMAIN sets :
        IsABAC(s) =>
          LET h == SetHistory(s)
              t == TagsOf(h)
          IN  /\ ResultsOf(h) = <<"MISS", "MISS", "HIT", "MISS">>
              /\ Resident(s) = {t[1], t[4]}

C2_LRURecency == [][C2_Evicts]_vars /\ []C2_Scenario

\* the A, B, A, C run has just ended under LRU with the eviction of B
C2_Witness ==
    /\ WellFormed /\ policy = "LRU" /\ config.associativity = 2
    /\ last.result = "MISS"
    /\ IsABAC(last.set)
    /\ last.replaced = Some(TagsOf(SetHistory(last.set))[2])

\* C3: under FIFO, a miss in a full set evicts the resident tag that was
\* inserted earliest, whatever hits it has had since; and when the first four
\* accesses to a set of a 2-way cache carry the tags A, B, A, C (all
\* different), their results are MISS, MISS, HIT, MISS and the set then
\* holds exactly B and C.
C3_Evicts ==
    (AccessStep /\ WellFormed /\ policy = "FIFO" /\ last'.result = "MISS"
       /\ Len(sets[last'.set]) = config.associativity) =>
      /\ last'.replaced # None
      /\ LET s == last'.set
             e == last'.replaced[1]
         IN  /\ e \in Resident(s)
             /\ e \notin Range(sets'[s])
             /\ \A t \in Resident(s) :
                   LastInsert(access_log, s, e) <= LastInsert(access_log, s, t)

C3_Scenario ==
    (WellFormed /\ policy = "FIFO" /\ config.associativity = 2) =>
      \A s \in DOMAIN sets :
        IsABAC(s) =>
          LET h == SetHistory(s)
              t == TagsOf(h)
          IN  /\ ResultsOf(h) = <<"MISS", "MISS", "HIT", "MISS">>
              /\ Resident(s) = {t[2], t[4]}

C3_FIFOInsertionOrder == [][C3_Evicts]_vars /\ []C3_Scenario

\* the A, B, A, C run has just ended under FIFO with the eviction of A
C3_Witness ==
    /\ WellFormed /\ policy = "FIFO" /\ config.associativity = 2
    /\ last.result = "MISS"
    /\ IsABAC(last.set)
    /\ last.replaced = Some(TagsOf(SetHistory(last.set))[1])

\* C4: under Random, a miss in a full set picks a position of the set's list;
\* the new tag overwrites the tag at that position, every other position
\* keeps its tag, the length of the list is unchanged, and the tag that was
\* at the position is returned as evicted.
C4_RandomInPlace ==
    [][(AccessStep /\ WellFormed /\ policy = "Random" /\ last'.result = "MISS"
          /\ Len(sets[last'.set]) = config.associativity) =>
         LET s == last'.set
             before == sets[s]
             after == sets'[s]
         IN  /\ Len(after) = Len(before)
             /\ \E index \in 0..(config.associativity - 1) :
                   /\ last'.replaced = Some(before[index + 1])
                   /\ after[index + 1] = last'.tag
                   /\ \A k \in 1..Len(before) :
                         k # index + 1 => after[k] = before[k]]_vars

\* Random has evicted the tag at the first position of a 3-way set: the new
\* tag stands at the first position, in front of two older tags
C4_Witness ==
    /\ WellFormed /\ policy = "Random" /\ config.associativity = 3
    /\ last.result = "MISS" /\ last.replaced # None
    /\ Len(sets[last.set]) = 3
    /\ sets[last.set][1] = last.tag

\* C5: in a cache with at least one way and at least one set, under every
\* policy, when two consecutive accesses carry the same address and no
\* earlier access went to that address's set (the set was empty), the first
\* is a MISS and the second a HIT.
C5_MissThenHit ==
    WellFormed =>
      \A i \in 1..(Len(access_log) - 1) :
        (/\ access_log[i + 1].address = access_log[i].address
         /\ \A j \in 1..(i - 1) : access_log[j].set # access_log[i].set) =>
          /\ access_log[i].result = "MISS"
          /\ access_log[i + 1].result = "HIT"

\* Random: an address was accessed twice in a row in a set that had not
\* been used, after an access to another set
C5_Witness ==
    /\ WellFormed /\ policy = "Random"
    /\ Len(access_log) >= 3
    /\ access_log[3].address = access_log[2].address
    /\ access_log[1].set # access_log[2].set
    /\ access_log[3].result = "HIT"

----------------------------------------------------------------------------
\* the total number of resident tags over the sets 0 .. n - 1
RECURSIVE ResidentUpTo(_)
ResidentUpTo(n) == IF n <= 0 THEN 0 ELSE Len(sets[n - 1]) + ResidentUpTo(n - 1)

TotalResident == ResidentUpTo(config.num_sets)

\* the entry of the log before entry i that went to the same set (0 if none)
PrevInSet(i) ==
    LET at == {j \in 1..(i - 1) : access_log[j].set = access_log[i].set}
    IN  IF at = {} THEN 0 ELSE CHOOSE j \in at : \A k \in at : k <= j

\* C6: in a direct-mapped cache (associativity 1) under LRU an access is a
\* HIT exactly when the most recent earlier access to the same set carried
\* the same tag; the configuration 4 KB / 64-byte blocks / 1 way has 64 sets,
\* the addresses 0, 64, 128, 192, 0, 64, 128, 256 give MISS, MISS, MISS,
\* MISS, HIT, HIT, HIT, MISS and the third of the addresses 0, 64, 0 is a HIT.
C6_DirectMapped ==
    (WellFormed /\ policy = "LRU" /\ config.associativity = 1) =>
      /\ \A i \in 1..Len(access_log) :
            (access_log[i].result = "HIT") <=>
              (/\ PrevInSet(i) # 0
               /\ GetTag(access_log[PrevInSet(i)].address)
                    = GetTag(access_log[i].address))
      /\ (config.cache_size_bytes = 4096 /\ config.block_size_bytes = 64) =>
            /\ config.num_sets = 64
            /\ AddressesOf(access_log) = <<0, 64, 128, 192, 0, 64, 128, 256>> =>
                 ResultsOf(access_log) = <<"MISS", "MISS", "MISS", "MISS",
                                           "HIT", "HIT", "HIT", "MISS">>
            /\ AddressesOf(access_log) = <<0, 64, 0>> =>
                 access_log[3].result = "HIT"

\* the eight addresses of the basic experiment have been accessed in the
\* direct-mapped cache of 64 sets
C6_Witness ==
    /\ policy = "LRU" /\ config.associativity = 1 /\ config.num_sets = 64
    /\ AddressesOf(access_log) = <<0, 64, 128, 192, 0, 64, 128, 256>>
    /\ last.result = "MISS" /\ last.set = 4

\* C7: a call of access adds 1 to replacements exactly when it is a MISS on
\* a set that already held associativity tags, under every policy and also
\* when the victim is tag 0; so replacements is the number of misses less
\* the misses that found room (one per resident tag), and is at most misses.
C7_Step ==
    AccessStep =>
      stats'.replacements =
        stats.replacements +
          (IF last'.result = "MISS"
                /\ Len(sets[last'.set]) = config.associativity
           THEN 1 ELSE 0)

C7_Count ==
    /\ stats.replacements = stats.misses - TotalResident
    /\ stats.replacements <= stats.misses

C7_Replacements == [][C7_Step]_vars /\ []C7_Count

\* tag 0 has just been evicted, and it was not the first eviction
C7_Witness ==
    /\ last.result = "MISS" /\ last.replaced = Some(0)
    /\ stats.replacements >= 2

\* C8: a call of access that returns adds exactly 1 to accesses and exactly
\* 1 to hits (result HIT) or to misses (result MISS), leaving the other
\* unchanged; no counter ever decreases; and as long as every call has
\* returned, accesses = hits + misses.
C8_Step ==
    /\ (AccessStep /\ last'.result \in {"HIT", "MISS"}) =>
         /\ stats'.accesses = stats.accesses + 1
         /\ last'.result = "HIT" =>
              stats'.hits = stats.hits + 1 /\ stats'.misses = stats.misses
         /\ last'.result = "MISS" =>
              stats'.misses = stats.misses + 1 /\ stats'.hits = stats.hits
    /\ stats'.accesses >= stats.accesses
    /\ stats'.hits >= stats.hits
    /\ stats'.misses >= stats.misses
    /\ stats'.replacements >= stats.replacements

C8_Sum == WellFormed => stats.accesses = stats.hits + stats.misses

C8_Counters == [][C8_Step]_vars /\ []C8_Sum

\* hits and misses have both been counted more than once
C8_Witness ==
    /\ WellFormed /\ stats.hits >= 2 /\ stats.misses >= 2
    /\ last.result = "HIT"

\* C9: the hit_rate of get_stats is a quotient with a nonzero denominator,
\* lies between 0 and 100, and is 0 when accesses is 0.
C9_HitRate ==
    LET r == GetStats.hit_rate
    IN  /\ r.den > 0
        /\ 0 <= r.num
        /\ r.num <= 100 * r.den
        /\ stats.accesses = 0 => r.num = 0
        /\ stats.hits <= stats.accesses

\* a run of accesses that were all hits but the first: the hit rate is
\* strictly between 0 and 100
C9_Witness ==
    LET r == GetStats.hit_rate
    IN  /\ stats.accesses >= 3
        /\ 0 < r.num
        /\ r.num < 100 * r.den
        /\ stats.misses = 1

\* C10: with associativity >= 1, under every policy, no set ever holds more
\* than associativity tags.
C10_Capacity ==
    config.associativity >= 1 =>
      \A s \in DOMAIN sets : Len(sets[s]) <= config.associativity

\* a full 3-way set that has seen an eviction
C10_Witness ==
    /\ config.associativity = 3
    /\ \E s \in DOMAIN sets : Len(sets[s]) = 3
    /\ stats.replacements >= 1

----------------------------------------------------------------------------
\* the parameters are those of a valid configuration: positive sizes, and an
\* associativity that is 0 (fully associative) or from 1 to num_blocks
ValidConfig ==
    /\ config.cache_size_bytes > 0
    /\ config.block_size_bytes > 0
    /\ \/ config.associativity = 0
       \/ /\ config.associativity >= 1
          /\ config.associativity <= config.num_blocks

\* the parameters are those the constructor has to refuse
InvalidParams ==
    \/ config.block_size_bytes <= 0
    \/ config.cache_size_bytes <= 0
    \/ config.associativity < 0

\* C11: in a cache built from a valid configuration (the fully associative
\* sentinel 0 included) under LRU, FIFO or Random, no call of access with a
\* non-negative address raises an error: each returns HIT or MISS.
C11_AccessNeverRaises ==
    ValidConfig => last.result # "RAISE"

\* C12: with associativity 0 the cache has exactly one set, every access
\* goes to set 0, and a miss stores the tag in that set without an eviction
\* while fewer than num_blocks tags are resident.
C12_FullyAssociative ==
    (ValidConfig /\ config.associativity = 0) =>
      /\ config.num_sets = 1
      /\ DOMAIN sets = {0}
      /\ last # NoCall =>
           /\ last.set = 0
           /\ last.result \in {"HIT", "MISS"}
           /\ last.tag \in Resident(0)
           /\ Len(sets[0]) <= config.num_blocks => last.replaced = None

\* C13: no cache is built from a configuration with a block size <= 0, a
\* cache size <= 0 or an associativity < 0 (the constructor fails), so no
\* call of access on such a cache ever returns a result.
C13_InvalidConfigUnusable ==
    InvalidParams =>
      /\ last.result \notin {"HIT", "MISS"}
      /\ access_log = <<>>


----------------------------------------------------------------------------
\* C14: every valid configuration (positive cache size and block size, an
\* associativity that is 0 or from 1 to num_blocks) has at least one set, and
\* exactly one set when its associativity is 0.
C14_NumSets ==
    ValidConfig =>
        /\ config.num_sets >= 1
        /\ config.associativity = 0 => config.num_sets = 1

\* a fully associative configuration of several blocks, and one whose
\* associativity is its number of blocks
C14_Witness ==
    /\ ValidConfig
    /\ \/ config.associativity = 0 /\ config.num_blocks >= 2
       \/ config.associativity = config.num_blocks /\ config.num_blocks >= 2

\* C15: for a valid configuration and a non-negative address,
\* get_address_breakdown returns set_index = (address div block_size_bytes)
\* mod num_sets and tag = (address div block_size_bytes) div num_sets, with
\* 0 <= set_index < num_sets; the pair is the one access uses for the address;
\* the same address gives the same pair again; and the call changes neither
\* the configuration nor the cache.
C15_Pair ==
    (ValidConfig /\ probe # NoProbe /\ probe.address >= 0) =>
        LET block == probe.address \div config.block_size_bytes IN
        /\ ~probe.raised
        /\ probe.set_index = block % config.num_sets
        /\ probe.tag = block \div config.num_sets
        /\ probe.set_index >= 0
        /\ probe.set_index < config.num_sets
        /\ (last.address = probe.address /\ last.set # -1) =>
               /\ last.set = probe.set_index
               /\ last.tag = probe.tag

C15_Step ==
    Breakdown =>
        /\ UNCHANGED <<config, policy, pstats, sets, stats, access_log, last,
                       debug_mode, rng>>
        /\ (probe'.address = probe.address /\ probe # NoProbe) => probe' = probe

C15_AddressBreakdown == [][C15_Step]_vars /\ []C15_Pair

\* an unaligned address of a later block broken down in a configuration of
\* several sets, after the cache has been accessed
C15_Witness ==
    /\ ValidConfig
    /\ config.num_sets >= 2
    /\ ~probe.raised
    /\ probe.address % config.block_size_bytes # 0
    /\ probe.set_index >= 1
    /\ probe.tag >= 1
    /\ stats.accesses >= 1

----------------------------------------------------------------------------
\* two characters that are the same letter in either case, or the same
\* character
SameLetter(c, d) ==
    \/ c = d
    \/ \E k \in 1..Len(LowerCase) : {c, d} = {LowerCase[k], UpperCase[k]}

\* the selector the cache was constructed with spells name in some mix of
\* cases
Names(name) ==
    /\ Len(selector) = Len(name)
    /\ \A i \in 1..Len(name) : SameLetter(selector[i], name[i])

Unrecognised ==
    /\ ~Names(<<"L", "R", "U">>)
    /\ ~Names(<<"F", "I", "F", "O">>)
    /\ ~Names(<<"R", "A", "N", "D", "O", "M">>)

\* C16: every selector gives a cache; LRU, FIFO and RANDOM are recognised in
\* any mix of cases; any other selector gives a cache whose stats name the
\* policy LRU and whose every access has the outcome, the set contents and
\* the counters that LRU gives.
C16_Policy ==
    /\ policy \in {"LRU", "FIFO", "Random"}
    /\ Names(<<"L", "R", "U">>) => policy = "LRU"
    /\ Names(<<"F", "I", "F", "O">>) => policy = "FIFO"
    /\ Names(<<"R", "A", "N", "D", "O", "M">>) => policy = "Random"
    /\ Unrecognised => GetStats.policy = "LRU"

C16_Step ==
    (AccessStep /\ Unrecognised /\ WellFormed) =>
        LET set_index == last'.set IN
        \E out \in LRUAccess(pstats, sets[set_index], last'.tag,
                              config.associativity) :
          /\ last'.result = out.result
          /\ last'.replaced = out.replaced
          /\ sets' = [sets EXCEPT ![set_index] = out.blocks]
          /\ pstats' = out.self
          /\ stats'.accesses = stats.accesses + 1
          /\ stats'.hits = stats.hits + (IF out.result = "HIT" THEN 1 ELSE 0)
          /\ stats'.misses = stats.misses + (IF out.result = "MISS" THEN 1 ELSE 0)
          /\ stats'.replacements =
                stats.replacements + (IF out.replaced # None THEN 1 ELSE 0)

C16_SelectorFallback == [][C16_Step]_vars /\ []C16_Policy

\* a cache made with the selector "MRU" that has hit and has evicted, and
\* whose last access hit a tag that FIFO would have evicted
C16_Witness ==
    /\ selector = <<"M", "R", "U">>
    /\ stats.replacements >= 1
    /\ last.result = "HIT"
    /\ \E s \in DOMAIN sets :
         LET t == TagsOf(SetHistory(s))
         IN  /\ Len(t) = 5
             /\ t[1] = t[3]
             /\ t[3] = t[5]
             /\ Cardinality({t[1], t[2], t[4]}) = 3

----------------------------------------------------------------------------
C17_Length ==
    /\ Len(access_log) <= LogCap
    /\ LET n == stats.hits + stats.misses
       IN  Len(access_log) = (IF n < LogCap THEN n ELSE LogCap)

C17_Step ==
    (AccessStep /\ last'.result # "RAISE") =>
        IF Len(access_log) < LogCap
        THEN access_log' =
                Append(access_log, [address |-> last'.address,
                                    set     |-> last'.set,
                                    result  |-> last'.result])
        ELSE access_log' = access_log

\* C17: the access log never holds more than 1000 entries; after n accesses
\* it holds min(n, 1000); an access made while the log has room appends its
\* address, set index and outcome after the entries already there, and an
\* access made when the log is full leaves the log as it was.
C17_BoundedLog == [][C17_Step]_vars /\ []C17_Length

\* more accesses than the log holds, the last one an eviction that was not
\* logged
C17_Witness ==
    /\ stats.accesses > LogCap
    /\ Len(access_log) = LogCap
    /\ last.replaced # None
    /\ access_log[LogCap].address # last.address

----------------------------------------------------------------------------
\* the keys of the dict get_stats returns
StatsKeys == {"accesses", "hits", "misses", "hit_rate", "replacements", "policy"}

\* the cache as its operations see it
CacheState == <<config, policy, pstats, sets, stats, access_log>>

C18_Step ==
    /\ CallGetStats =>
          LET d == Contents(snapshot[1])' IN
          /\ DOMAIN d = StatsKeys
          /\ d.accesses = stats.accesses
          /\ d.hits = stats.hits
          /\ d.misses = stats.misses
          /\ d.replacements = stats.replacements
          /\ d.policy = policy
          /\ IF stats.accesses = 0
             THEN d.hit_rate.num = 0
             ELSE d.hit_rate.num * stats.accesses = stats.hits * 100 * d.hit_rate.den
          /\ UNCHANGED CacheState
    /\ ModifySnapshot => UNCHANGED <<CacheState, last, debug_mode>>
    /\ (ObservedAccess /\ snapshot # None) =>
          Contents(snapshot[1])' = Contents(snapshot[1])

StateEffects(effects) == {[e EXCEPT !.printed = 0] : e \in effects}

C19_Step ==
    /\ (CallGetStats \/ PrintStats \/ DebugOn \/ DebugOff) =>
          UNCHANGED <<CacheState, last>>
    /\ ObservedAccess =>
          \E e \in AccessOutcomes(last'.address, ~debug_mode) :
            /\ sets' = e.sets
            /\ stats' = e.stats
            /\ pstats' = e.pstats
            /\ access_log' = e.access_log
            /\ last' = e.last

C19_DebugBlind ==
    \A address \in Addresses(config) :
        StateEffects(AccessOutcomes(address, TRUE)) =
            StateEffects(AccessOutcomes(address, FALSE))

\* C19: get_stats, print_stats, debug_on and debug_off leave every set, every
\* counter and the access log unchanged, and an access has the same outcome
\* and the same effect on the state with the debug flag set as without it.
C19_OnlyAccessMutates == [][C19_Step]_vars /\ []C19_DebugBlind

\* three accesses made in debug mode, the last one an eviction, after a call
\* of get_stats
C19_Witness ==
    /\ debug_mode
    /\ snapshot # None
    /\ stats.replacements >= 1
    /\ Len(access_log) = 3
    /\ last.replaced # None

----------------------------------------------------------------------------
\* the values of the seed's sequence that the evictions of the cache use when
\* the cache alone draws from the generator: the k-th eviction the k-th value
C20_Step ==
    (SeededAccess /\ last'.replaced # None) =>
        LET blocks == sets[last'.set]
            index == rng.stream[stats.replacements + 1] % Len(blocks)
        IN  /\ last'.replaced = Some(blocks[index + 1])
            /\ sets'[last'.set] = [blocks EXCEPT ![index + 1] = last'.tag]

\* C20: with a fixed seed the Random policy is reproducible: the configuration,
\* the seed and the access sequence determine the victims, the outcomes and
\* the set contents, so that in every run with this seed the k-th eviction
\* takes the victim that the k-th value of the seed's sequence selects,
\* whatever else the run does between the accesses.
C20_SeedDeterminesVictims == [][C20_Step]_vars

----------------------------------------------------------------------------
C21_Step ==
    /\ TwoAccess => other' = other
    /\ (TwoAccess /\ policy = "Random" /\ last'.replaced # None) =>
          LET blocks == sets[last'.set]
              alone == [rng EXCEPT !.pos = stats.replacements]
              index == alone.stream[alone.pos + 1] % Len(blocks)
          IN  /\ last'.replaced = Some(blocks[index + 1])
              /\ sets'[last'.set] = [blocks EXCEPT ![index + 1] = last'.tag]

\* C21: two caches of one process share no mutable state: an access to one
\* leaves the other as it was, and under any interleaving of their accesses
\* each access of a cache has the outcome, the evicted tag and the set
\* contents that it has when that cache is the only one used; for a Random
\* cache in a seeded run, its k-th eviction takes the victim that the k-th
\* value of the seed's sequence selects.
C21_Independent == [][C21_Step]_vars

----------------------------------------------------------------------------
\* C22: for an associativity of at least 1, num_sets * associativity is at
\* most num_blocks, and the tags resident in all sets together are never
\* more than num_sets * associativity, hence never more than num_blocks.
C22_RemainderUnused ==
    config.associativity >= 1 =>
        /\ config.num_sets * config.associativity <= config.num_blocks
        /\ TotalResident <= config.num_sets * config.associativity
        /\ TotalResident <= config.num_blocks

----------------------------------------------------------------------------
\* a step that is one call of access that returned its outcome
Completed == AccessStep /\ last'.result \in {"HIT", "MISS"}

\* the position in self.sets of the set the access of this step went to
Target == ListIndex(sets, last'.set)

\* a list without the entries equal to tag
Without(blocks, tag) == SelectSeq(blocks, LAMBDA t : t # tag)

C23_Step ==
    Completed =>
        LET before == sets[Target]
            after == sets'[Target]
        IN  /\ last'.replaced # None <=>
                  /\ last'.result = "MISS"
                  /\ Len(before) = config.associativity
            /\ last'.replaced # None =>
                  /\ last'.replaced[1] \in Range(before)
                  /\ last'.replaced[1] \notin Range(after)
                  /\ Range(before) \ {last'.replaced[1]} \subseteq Range(after)
            /\ last'.replaced = None => Range(before) \subseteq Range(after)
            /\ last'.tag \in Range(after)

\* C23: under every policy an access reports an evicted tag exactly when it
\* is a MISS on a set that held associativity tags; that tag was resident in
\* the set before and is not after, every other resident tag stays, and the
\* new tag is resident; a HIT and a MISS with room evict nothing.
C23_Eviction == [][C23_Step]_vars

\* a Random cache whose last access overwrote the second tag of a full set
C23_Witness ==
    /\ policy = "Random"
    /\ last.replaced # None
    /\ last.set \in DOMAIN sets
    /\ Len(sets[last.set]) = 2
    /\ sets[last.set][2] = last.tag

\* C24: in every reachable state, under every policy, a tag occurs at most
\* once in a set.
C24_NoDuplicates ==
    \A s \in DOMAIN sets :
        \A i, j \in 1..Len(sets[s]) : sets[s][i] = sets[s][j] => i = j

\* an LRU hit on a tag of a full set after an eviction
C24_Witness ==
    /\ policy = "LRU"
    /\ last.result = "HIT"
    /\ stats.replacements >= 1
    /\ stats.hits >= 2
    /\ last.set \in DOMAIN sets
    /\ Len(sets[last.set]) >= 2

\* C25: under LRU every set is in ascending order of the last access to its
\* tags: the first tag is the least recently used one, the last tag is that
\* of the most recent access to the set.
C25_LRUOrder ==
    policy = "LRU" =>
        \A s \in DOMAIN sets :
            /\ \A i, j \in 1..Len(sets[s]) :
                  i < j => LastUse(access_log, s, sets[s][i])
                             < LastUse(access_log, s, sets[s][j])
            /\ \A t \in Resident(s) : LastUse(access_log, s, t) >= 1
            /\ SetHistory(s) # <<>> =>
                  /\ sets[s] # <<>>
                  /\ sets[s][Len(sets[s])] =
                        TagsOf(SetHistory(s))[Len(SetHistory(s))]

\* an LRU set of three tags whose oldest tag was hit and went to the end
C25_Witness ==
    /\ policy = "LRU"
    /\ last.result = "HIT"
    /\ last.set \in DOMAIN sets
    /\ Len(sets[last.set]) = 3
    /\ LET h == TagsOf(SetHistory(last.set))
       IN  /\ Len(h) = 4
           /\ h[4] = h[1]

C26_Step ==
    (Completed /\ policy = "LRU" /\ last'.result = "HIT") =>
        LET before == sets[Target]
            after == sets'[Target]
        IN  /\ Len(after) = Len(before)
            /\ after[Len(after)] = last'.tag
            /\ Without(after, last'.tag) = Without(before, last'.tag)
            /\ Range(after) = Range(before)
            /\ last'.replaced = None

\* C26: an LRU hit moves the accessed tag to the last position of its set,
\* keeps the other tags in their order, leaves length and membership of the
\* set as they were, and evicts nothing.
C26_LRUHit == [][C26_Step]_vars

\* an LRU hit on the first of three tags
C26_Witness ==
    /\ policy = "LRU"
    /\ last.result = "HIT"
    /\ last.set \in DOMAIN sets
    /\ Len(sets[last.set]) = 3
    /\ LET h == SetHistory(last.set)
       IN  /\ Len(h) = 4
           /\ TagsOf(h)[4] = TagsOf(h)[1]
           /\ ResultsOf(h) = <<"MISS", "MISS", "MISS", "HIT">>

C27_Step ==
    (Completed /\ policy \in {"FIFO", "Random"} /\ last'.result = "HIT") =>
        /\ sets' = sets
        /\ last'.replaced = None
        /\ stats' = [stats EXCEPT !.accesses = @ + 1, !.hits = @ + 1]
        /\ Len(access_log') = Len(access_log) + 1
        /\ UNCHANGED <<config, policy>>

\* C27: a hit under FIFO or Random leaves the set as it was, the same tags
\* at the same positions; the counters and the log change.
C27_HitKeepsSet == [][C27_Step]_vars

\* a hit on the first tag of a full set, under FIFO or Random
C27_Witness ==
    /\ policy \in {"FIFO", "Random"}
    /\ last.result = "HIT"
    /\ last.set \in DOMAIN sets
    /\ Len(sets[last.set]) >= 2
    /\ sets[last.set][1] = last.tag

C28_Step ==
    (Completed /\ last'.result = "MISS"
        /\ Len(sets[Target]) < config.associativity) =>
        /\ sets'[Target] = Append(sets[Target], last'.tag)
        /\ last'.replaced = None

\* C28: under every policy a miss on a set that holds fewer than
\* associativity tags appends the new tag: the former contents stay as a
\* prefix, the set grows by one, and no eviction is reported.
C28_MissAppends == [][C28_Step]_vars

\* a miss that filled the second place of a set
C28_Witness ==
    /\ last.result = "MISS"
    /\ last.replaced = None
    /\ last.set \in DOMAIN sets
    /\ Len(sets[last.set]) >= 2
    /\ sets[last.set][Len(sets[last.set])] = last.tag

----------------------------------------------------------------------------
C29_Step ==
    AccessStep =>
        /\ DOMAIN sets' = DOMAIN sets
        /\ \A i \in DOMAIN sets : i # Target => sets'[i] = sets[i]

\* C29: under every policy an access to an address of set index i changes at
\* most set i; every other set is left exactly as it was.
C29_OtherSetsKept == [][C29_Step]_vars

\* an eviction in one set of a cache whose other sets hold tags as well
C29_Witness ==
    /\ Cardinality(DOMAIN sets) >= 2
    /\ \A s \in DOMAIN sets : sets[s] # <<>>
    /\ last.replaced # None
    /\ \E s \in DOMAIN sets : s # last.set /\ last.tag \notin Resident(s)

C30_Step ==
    (AccessStep /\ last'.result = "RAISE") =>
        /\ UNCHANGED <<stats, pstats, sets, access_log>>
        /\ stats'.accesses = stats'.hits + stats'.misses

\* C30: an access that raises leaves no partial update: the counters of the
\* cache, the counters of the policy, the sets and the log are as before the
\* call, and accesses = hits + misses holds after it.
C30_RaiseLeavesNothing == [][C30_Step]_vars

----------------------------------------------------------------------------
\* every access made so far returned its outcome
AllCompleted == stats.accesses = stats.hits + stats.misses

\* C31: after any sequence of completed accesses the counters of the policy
\* agree with those of the cache: the same accesses, the same hits, and a
\* policy hit rate equal to the hit_rate of get_stats.
C31_PolicyCounters ==
    AllCompleted =>
        /\ pstats.accesses = stats.accesses
        /\ pstats.hits = stats.hits
        /\ GetHitRate(pstats).num * GetStats.hit_rate.den
              = GetStats.hit_rate.num * GetHitRate(pstats).den

\* an LRU cache after hits and misses
C31_Witness ==
    /\ policy = "LRU"
    /\ AllCompleted
    /\ stats.hits >= 2
    /\ stats.misses >= 2
    /\ pstats.hits = stats.hits

\* C32: in a direct-mapped cache the three policies cannot be told apart: in
\* every state reached under any of them, an access to any address has under
\* LRU, FIFO and Random the same outcome, the same evicted tag, the same
\* contents of the set and the same counters.
C32_DirectMappedAlike ==
    (config.associativity = 1 /\ config.num_sets >= 1) =>
        \A address \in Addresses(config) :
            LET blocks == sets[ListIndex(sets, GetSetIndex(address))]
                tag == GetTag(address)
            IN  /\ LRUAccess(pstats, blocks, tag, 1)
                      = FIFOAccess(pstats, blocks, tag, 1)
                /\ FIFOAccess(pstats, blocks, tag, 1)
                      = RandomAccess(pstats, blocks, tag, 1)
                /\ Cardinality(LRUAccess(pstats, blocks, tag, 1)) = 1

\* a direct-mapped Random cache that has hit and has evicted
C32_Witness ==
    /\ config.associativity = 1
    /\ policy = "Random"
    /\ stats.hits >= 1
    /\ stats.replacements >= 1
    /\ last.replaced # None

----------------------------------------------------------------------------
\* C33: for a valid configuration and a non-negative address, the set index
\* and the tag that Cache.access computes are the pair that
\* get_address_breakdown returns for the address.
C33_SamePair ==
    ValidConfig =>
        /\ \A address \in ProbeAddresses(config) :
              LET b == GetAddressBreakdown(config, address)
              IN  /\ ~b.raised
                  /\ GetSetIndex(address) = b.set_index
                  /\ GetTag(address) = b.tag
        /\ (last.result \in {"HIT", "MISS"} /\ probe.address = last.address) =>
              /\ last.set = probe.set_index
              /\ last.tag = probe.tag

\* an address of a later block and set that was accessed and broken down
C33_Witness ==
    /\ ValidConfig
    /\ last.result \in {"HIT", "MISS"}
    /\ probe.address = last.address
    /\ last.set >= 1
    /\ last.tag >= 1

\* the block number of an address
BlockOf(address) == FloorDiv(address, config.block_size_bytes)

\* the effects of an access without the address itself: the outcome, the
\* evicted tag, the sets and the counters
BlockEffects(effects) ==
    {[result |-> e.last.result, replaced |-> e.last.replaced, sets |-> e.sets,
      stats |-> e.stats, pstats |-> e.pstats] : e \in effects}

\* C34: the cache depends on block numbers only: set index and tag give the
\* block number back (block = tag * num_sets + set_index), two addresses of
\* different blocks never have the same set index and tag, two addresses of
\* one block have the same effect in every state, and a HIT is always on a
\* block that was accessed before.
C34_BlocksOnly ==
    /\ config.num_sets # 0 =>
          /\ \A a \in Addresses(config) :
                BlockOf(a) = GetTag(a) * config.num_sets + GetSetIndex(a)
          /\ \A a, b \in Addresses(config) :
                (GetSetIndex(a) = GetSetIndex(b) /\ GetTag(a) = GetTag(b))
                    => BlockOf(a) = BlockOf(b)
          /\ last.result \in {"HIT", "MISS"} =>
                BlockOf(last.address) = last.tag * config.num_sets + last.set
    /\ \A a, b \in Addresses(config) :
          (a < b /\ BlockOf(a) = BlockOf(b)) =>
              BlockEffects(AccessOutcomes(a, FALSE))
                  = BlockEffects(AccessOutcomes(b, FALSE))
    /\ \A i \in 1..Len(access_log) :
          access_log[i].result = "HIT" =>
              \E j \in 1..(i - 1) :
                  BlockOf(access_log[j].address) = BlockOf(access_log[i].address)

\* a HIT on an address whose block was brought in through another address
C34_Witness ==
    /\ last.result = "HIT"
    /\ access_log # <<>>
    /\ \A j \in 1..(Len(access_log) - 1) :
          BlockOf(access_log[j].address) = BlockOf(last.address)
              => access_log[j].address # last.address
    /\ stats.misses >= 2

\* the block numbers of the accesses in the log
BlocksAccessed == {BlockOf(access_log[i].address) : i \in 1..Len(access_log)}

----------------------------------------------------------------------------
\* both caches of the pair have been given the same accesses
InStep == other # NoOther /\ Focus = 1 /\ script = <<>>

\* C36: LRU inclusion: of two LRU caches with the same block size and the
\* same number of sets and associativities k < k', given the same accesses,
\* each set of the k-way cache holds after every access only tags that the
\* same set of the k'-way cache holds, and every HIT of the k-way cache is
\* a HIT of the k'-way cache.
C36_LRUInclusion ==
    InStep =>
        LET larger == other[1] IN
        /\ config.associativity < larger.config.associativity
        /\ config.num_sets = larger.config.num_sets
        /\ config.block_size_bytes = larger.config.block_size_bytes
        /\ last.address = larger.last.address
        /\ \A s \in DOMAIN sets : Range(sets[s]) \subseteq Range(larger.sets[s])
        /\ last.result = "HIT" => larger.last.result = "HIT"
        /\ stats.hits <= larger.stats.hits

\* an access that missed in the 2-way cache, which had evicted its tag, and
\* hit in the 3-way cache
C36_Witness ==
    /\ InStep
    /\ config.associativity = 2
    /\ last.result = "MISS"
    /\ last.replaced # None
    /\ other[1].last.result = "HIT"
    /\ stats.replacements >= 2

====
